---------------------------- MODULE Spec2Model ----------------------------
(***************************************************************************)
(* A model of zhaquirks/tuya/__init__.py: the Tuya datapoint codec (Data), *)
(* the attribute bridge (TuyaManufClusterAttributes), the switch view      *)
(* (TuyaOnOff) and the scene-remote device (TuyaSmartRemote).              *)
(*                                                                         *)
(* The specifications of the module:                                       *)
(*   SpecCodec      Data.from_value / Data.to_value on typed values        *)
(*   SpecRemote     TuyaSmartRemote.handle_message on a stream of frames   *)
(*   Spec           the attribute bridge and the switch view's command,    *)
(*                  which draw on the application's sequence counter       *)
(*   SpecSwitch     a switch device: its manufacturer cluster, its switch  *)
(*                  bus and one TuyaOnOff view per endpoint                *)
(*   SpecThermostat the thermostat view over the attribute bridge          *)
(*   SpecUI         the user-interface and power views over the bridge     *)
(*   SpecOutbound   every outbound operation beside the inbound updates    *)
(***************************************************************************)
EXTENDS Integers, Sequences, FiniteSets, TLC

VARIABLES
    codec,      \* SpecCodec: [pc, v, wire, out], one value through the codec
    last_code,  \* TuyaSmartRemote.last_code
    rx,         \* the frame of the latest handle_message call
    rstatus,    \* what that call did: idle / forwarded / dropped / raised
    lastFwd,    \* the frame most recently given to super().handle_message
    attr_cache, \* TuyaManufClusterAttributes._attr_cache: datapoint id -> value
    seq,        \* the application's send sequence (get_sequence)
    op,         \* the latest operation on the bridge or the switch view
    sent,       \* the frames that operation handed to the manufacturer cluster
    updates,    \* the _update_attribute calls that operation made
    ret,        \* what that operation returned
    published,  \* the bus events that operation published
    on_off,     \* endpoint -> the on_off attribute cached by its TuyaOnOff view
    thermostat_cache,  \* TuyaThermostatCluster._attr_cache, by attribute name
    thermostat_class,  \* the thermostat view's class: the base class or a device model's
    ui_cache,   \* TuyaUserInterfaceCluster._attr_cache, by attribute name
    power_cache \* TuyaPowerConfigurationCluster._attr_cache, by attribute name

vars ==
    <<codec, last_code, rx, rstatus, lastFwd, attr_cache, seq, op, sent, updates, ret,
      published, on_off, thermostat_cache, thermostat_class, ui_cache, power_cache>>

codecVars == <<codec>>

remoteVars == <<last_code, rx, rstatus, lastFwd>>

bridgeVars == <<attr_cache, seq, op, sent, updates, ret>>

viewVars == <<published, on_off, thermostat_cache, thermostat_class, ui_cache, power_cache>>

(***************************************************************************)
(* Bytes and sequences                                                     *)
(***************************************************************************)
Reverse(s) == [i \in 1..Len(s) |-> s[Len(s) + 1 - i]]

\* python's s[1:], which is empty on the empty list
Slice1(s) == IF Len(s) = 0 THEN <<>> ELSE Tail(s)

RECURSIVE Pow256(_)
Pow256(k) == IF k = 0 THEN 1 ELSE 256 * Pow256(k - 1)

\* the k-byte little-endian rendering of the unsigned number n
ToLE(n, k) == [i \in 1..k |-> (n \div Pow256(i - 1)) % 256]

RECURSIVE FromLE(_, _)
FromLE(bytes, k) == IF k = 0 THEN 0 ELSE FromLE(bytes, k - 1) + bytes[k] * Pow256(k - 1)

(***************************************************************************)
(* Typed values: the zigpy types a datapoint is declared with.  A value is *)
(* [type, num, str]: num for the integer types, str (a byte string) for    *)
(* the character string.                                                   *)
(***************************************************************************)
IntTypes == {"uint8", "uint16", "uint24", "int8", "int16"}

Types == IntTypes \cup {"string"}

Width(type) ==
    CASE type = "uint8" -> 1
      [] type = "int8" -> 1
      [] type = "uint16" -> 2
      [] type = "int16" -> 2
      [] type = "uint24" -> 3

Signed(type) == type \in {"int8", "int16"}

IntVal(type, n) == [type |-> type, num |-> n, str |-> <<>>]

StrVal(s) == [type |-> "string", num |-> 0, str |-> s]

NoValue == [type |-> "none", num |-> 0, str |-> <<>>]

\* value.serialize(): little-endian, two's complement for the signed types;
\* a character string is its length byte followed by its bytes
Serialize(v) ==
    IF v.type = "string"
    THEN <<Len(v.str)>> \o v.str
    ELSE ToLE((v.num + Pow256(Width(v.type))) % Pow256(Width(v.type)), Width(v.type))

\* ztype.deserialize(data): [ok, value]; it raises (ok = FALSE) when the data
\* is shorter than the type needs, and ignores what follows the value
Deserialize(type, data) ==
    IF type = "string"
    THEN IF Len(data) = 0 \/ Len(data) < 1 + data[1]
         THEN [ok |-> FALSE, value |-> NoValue]
         ELSE [ok |-> TRUE, value |-> StrVal(SubSeq(data, 2, 1 + data[1]))]
    ELSE IF Len(data) < Width(type)
         THEN [ok |-> FALSE, value |-> NoValue]
         ELSE LET u == FromLE(data, Width(type))
                  half == Pow256(Width(type)) \div 2
              IN  [ok |-> TRUE,
                   value |-> IntVal(type, IF Signed(type) /\ u >= half
                                          THEN u - Pow256(Width(type))
                                          ELSE u)]

(***************************************************************************)
(* Data: the datapoint codec                                               *)
(***************************************************************************)
\* a slip: the length byte is put in front before the reversal
from_value_length_first(value) == Reverse(<<Len(Serialize(value))>> \o Serialize(value))

\* Data.from_value: serialize, append the length, reverse
from_value(value) == Reverse(Append(Serialize(value), Len(Serialize(value))))

\* a slip: the payload is deserialized without reversing it back
to_value_unreversed(self, ztype) == Deserialize(ztype, Slice1(self))

\* Data.to_value: drop the first byte, reverse the rest, deserialize
to_value(self, ztype) == Deserialize(ztype, Reverse(Slice1(self)))

(***************************************************************************)
(* SpecCodec: one typed value through from_value and to_value              *)
(***************************************************************************)
MaxStrLen == 2

StrBytes == {0, 65, 255}

RECURSIVE StringsUpTo(_)
StringsUpTo(n) ==
    IF n = 0 THEN {<<>>}
    ELSE StringsUpTo(n - 1) \cup
         {Append(s, b) : s \in {t \in StringsUpTo(n - 1) : Len(t) = n - 1}, b \in StrBytes}

\* the longest string the protocol can carry: its serialization is 255 bytes
LongString == [i \in 1..254 |-> 65]

CodecValues ==
    {IntVal("uint8", n) : n \in 0..255}
    \cup {IntVal("int8", n) : n \in -128..127}
    \cup {IntVal("uint16", n) : n \in {0, 1, 255, 256, 258, 513, 32768, 65535}}
    \cup {IntVal("int16", n) : n \in {-32768, -256, -2, -1, 0, 1, 255, 256, 32767}}
    \cup {IntVal("uint24", n) : n \in {0, 1, 65536, 66051, 8388608, 16777215}}
    \cup {StrVal(s) : s \in StringsUpTo(MaxStrLen) \cup {LongString}}

NoResult == [ok |-> FALSE, value |-> NoValue]

CodecIdle == [pc |-> "idle", v |-> NoValue, wire |-> <<>>, out |-> NoResult]

\* payload = Data.from_value(v)
Encode ==
    /\ codec.pc = "value"
    /\ codec' = [codec EXCEPT !.pc = "encoded", !.wire = from_value(codec.v)]
    /\ UNCHANGED <<remoteVars, bridgeVars, viewVars>>

\* payload.to_value(type of v)
Decode ==
    /\ codec.pc = "encoded"
    /\ codec' = [codec EXCEPT !.pc = "decoded", !.out = to_value(codec.wire, codec.v.type)]
    /\ UNCHANGED <<remoteVars, bridgeVars, viewVars>>

(***************************************************************************)
(* TuyaSmartRemote                                                         *)
(***************************************************************************)
MaxTsn == 2

MaxCode == 2

Marker == 253

NoFrame == [profile |-> 0, cluster |-> 0, src_ep |-> 0, dst_ep |-> 0, message |-> <<>>]

\* raw messages: with the marker and the code in the 4th byte, with the code
\* in its normal place, with another first byte, too short, too long
RemoteMessages ==
    {<<1, t, Marker, c>> : t \in 1..MaxTsn, c \in 0..MaxCode}
    \cup {<<1, t, c, 0>> : t \in 1..MaxTsn, c \in 0..MaxCode}
    \cup {<<17, t, Marker, 1>> : t \in 1..MaxTsn}
    \cup {<<1, t, Marker>> : t \in 1..MaxTsn}
    \cup {<<1, t, Marker, 1, 0>> : t \in 1..MaxTsn}
    \cup {<<1>>, <<>>}

RemoteFrames ==
    [profile : {260, 49246}, cluster : {6, 8}, src_ep : {1}, dst_ep : {1},
     message : RemoteMessages]

\* the condition of lines 381-387
Matches(profile, cluster, message) ==
    /\ profile = 260
    /\ cluster = 6
    /\ Len(message) = 4
    /\ message[1] = 1
    /\ message[3] = Marker

\* a slip: the code is copied and the 4th byte keeps it
RewriteKeepsFourth(message) == <<message[1], message[2], message[4], message[4]>>

\* lines 389-394: new_message
Rewrite(message) == <<message[1], message[2], message[4], 0>>

\* a slip: the rewrite is applied without looking at the signature
NormalizeAlways(profile, cluster, message) ==
    IF Len(message) = 4 THEN Rewrite(message) ELSE message

\* the frame as it stands after lines 381-394
Normalize(profile, cluster, message) ==
    IF Matches(profile, cluster, message) THEN Rewrite(message) ELSE message

\* a slip: the command byte is compared, not message[1]
IsNewByCommand(code, message) == Len(message) < 3 \/ code # message[3]

\* line 396: self.last_code != message[1]
IsNew(code, message) == code # message[2]

\* TuyaSmartRemote.handle_message; message[1] raises IndexError on a message
\* of fewer than two bytes
handle_message(profile, cluster, src_ep, dst_ep, message) ==
    LET m == Normalize(profile, cluster, message)
        f == [profile |-> profile, cluster |-> cluster, src_ep |-> src_ep,
              dst_ep |-> dst_ep, message |-> message]
    IN  /\ rx' = f
        /\ IF Len(m) < 2
           THEN /\ rstatus' = "raised"
                /\ UNCHANGED <<last_code, lastFwd>>
           ELSE IF IsNew(last_code, m)
                THEN /\ last_code' = m[2]
                     /\ lastFwd' = [f EXCEPT !.message = m]
                     /\ rstatus' = "forwarded"
                ELSE /\ rstatus' = "dropped"
                     /\ UNCHANGED <<last_code, lastFwd>>
        /\ UNCHANGED <<codecVars, bridgeVars, viewVars>>

RemoteStep == \E f \in RemoteFrames :
    handle_message(f.profile, f.cluster, f.src_ep, f.dst_ep, f.message)

(***************************************************************************)
(* TuyaManufCluster and the attribute bridge TuyaManufClusterAttributes    *)
(***************************************************************************)
TUYA_SET_DATA == 0

TUYA_GET_DATA == 1

TUYA_SET_DATA_RESPONSE == 2

ATTR_ON_OFF == 0

TUYA_CMD_BASE == 256

\* self.attributes of a device model: datapoint id -> declared type
attributes == (263 :> "uint8") @@ (514 :> "int16") @@ (1028 :> "uint8")

\* a datapoint id the device model does not declare
UnknownId == 999

Ids == {263, 514, UnknownId}

\* TuyaManufCluster.Command
Command(status, tsn, command_id, function, data) ==
    [status |-> status, tsn |-> tsn, command_id |-> command_id,
     function |-> function, data |-> data]

NoCommand == Command(0, 0, 0, 0, <<>>)

\* one call of a manufacturer cluster's command(): the cluster command id,
\* its payload, and the expect_reply and tsn keywords (-1: tsn not given)
Sent(command, payload, expect_reply, tsn_kw) ==
    [command |-> command, payload |-> payload, expect_reply |-> expect_reply,
     tsn_kw |-> tsn_kw]

NoOp ==
    [name |-> "none", command_id |-> 0, frame |-> NoCommand, attributes |-> <<>>,
     ids |-> {}, allow_cache |-> FALSE, only_cache |-> FALSE, ep |-> 0,
     value |-> 0, mode |-> 0, offset |-> 0, calls |-> <<>>]

Ret(status, success, wire) == [status |-> status, success |-> success, wire |-> wire]

\* application.get_sequence(), called i times from the counter value s
get_sequence(s, i) == (s + i) % 256

\* a slip: only the get command is taken for a datapoint report
IsReportGetOnly(command_id) == command_id = TUYA_GET_DATA

\* line 76: command_id in (0x0001, 0x0002)
IsReport(command_id) == command_id \in {TUYA_GET_DATA, TUYA_SET_DATA_RESPONSE}

\* a slip: the known-attribute check of line 93 is missing, and the lookup of
\* line 96 raises KeyError on an undeclared datapoint
Inbound_unchecked(command_id, frame, cache) ==
    IF ~IsReport(command_id)
    THEN [cache |-> cache, updates |-> <<>>, status |-> "default"]
    ELSE IF frame.command_id \notin DOMAIN attributes
    THEN [cache |-> cache, updates |-> <<>>, status |-> "raised"]
    ELSE LET r == to_value(frame.data, attributes[frame.command_id])
         IN  IF ~r.ok
             THEN [cache |-> cache, updates |-> <<>>, status |-> "raised"]
             ELSE [cache |-> [cache EXCEPT ![frame.command_id] = r.value],
                   updates |-> <<[attrid |-> frame.command_id, value |-> r.value]>>,
                   status |-> "none"]

\* TuyaManufClusterAttributes.handle_cluster_request as a function of the
\* cache: the cache afterwards, the _update_attribute calls, and the outcome
\* (default: handed to super(); none: returned; raised: to_value raised)
Inbound(command_id, frame, cache) ==
    IF ~IsReport(command_id)
    THEN [cache |-> cache, updates |-> <<>>, status |-> "default"]
    ELSE IF frame.command_id \notin DOMAIN attributes
    THEN [cache |-> cache, updates |-> <<>>, status |-> "none"]
    ELSE LET r == to_value(frame.data, attributes[frame.command_id])
         IN  IF ~r.ok
             THEN [cache |-> cache, updates |-> <<>>, status |-> "raised"]
             ELSE [cache |-> [cache EXCEPT ![frame.command_id] = r.value],
                   updates |-> <<[attrid |-> frame.command_id, value |-> r.value]>>,
                   status |-> "none"]

handle_cluster_request(tsn, command_id, frame) ==
    LET r == Inbound(command_id, frame, attr_cache)
    IN  /\ op' = [NoOp EXCEPT !.name = "handle_cluster_request",
                              !.command_id = command_id, !.frame = frame]
        /\ attr_cache' = r.cache
        /\ updates' = r.updates
        /\ ret' = Ret(r.status, {}, {})
        /\ sent' = <<>>
        /\ UNCHANGED <<seq, codecVars, remoteVars, viewVars>>

\* super().read_attributes: the cached values of the attributes asked for,
\* and the attributes it goes on to ask the device for
Cluster_read_attributes(ids, allow_cache, only_cache, cache) ==
    LET cached == IF allow_cache \/ only_cache
                  THEN {a \in ids \cap DOMAIN cache : cache[a] # NoValue}
                  ELSE {}
    IN  [success |-> {<<a, cache[a]>> : a \in cached},
         wire |-> IF only_cache THEN {} ELSE ids \ cached]

\* a slip: the caller's flags are passed on
read_attributes_passthrough(ids, allow_cache, only_cache, cache) ==
    Cluster_read_attributes(ids, allow_cache, only_cache, cache)

\* TuyaManufClusterAttributes.read_attributes
read_attributes(ids, allow_cache, only_cache, cache) ==
    Cluster_read_attributes(ids, TRUE, TRUE, cache)

ReadAttributes(ids, allow_cache, only_cache) ==
    LET r == read_attributes(ids, allow_cache, only_cache, attr_cache)
    IN  /\ op' = [NoOp EXCEPT !.name = "read_attributes", !.ids = ids,
                              !.allow_cache = allow_cache, !.only_cache = only_cache]
        /\ ret' = Ret("read", r.success, r.wire)
        /\ sent' = <<>>
        /\ updates' = <<>>
        /\ UNCHANGED <<attr_cache, seq, codecVars, remoteVars, viewVars>>

\* self._write_attr_records(attributes): a record for each attribute the
\* cluster declares, its value in the declared type
_write_attr_records(attrs) ==
    LET known == SelectSeq(attrs, LAMBDA a : a.attr \in DOMAIN attributes)
    IN  [i \in 1..Len(known) |->
            [attrid |-> known[i].attr,
             value |-> IntVal(attributes[known[i].attr], known[i].value)]]

\* a slip: the value is sent as serialized, not as a Data payload
write_command_raw(record, tsn) ==
    Sent(TUYA_SET_DATA, Command(0, tsn, record.attrid, 0, Serialize(record.value)),
         FALSE, tsn)

\* lines 115-128: the set_data command sent for one record
write_command(record, tsn) ==
    Sent(TUYA_SET_DATA, Command(0, tsn, record.attrid, 0, from_value(record.value)),
         FALSE, tsn)

\* TuyaManufClusterAttributes.write_attributes
write_attributes(attrs) ==
    LET records == _write_attr_records(attrs)
    IN  /\ op' = [NoOp EXCEPT !.name = "write_attributes", !.attributes = attrs]
        /\ sent' = [i \in 1..Len(records) |-> write_command(records[i], get_sequence(seq, i))]
        /\ seq' = get_sequence(seq, Len(records))
        /\ ret' = Ret("SUCCESS", {}, {})
        /\ updates' = <<>>
        /\ UNCHANGED <<attr_cache, codecVars, remoteVars, viewVars>>

(***************************************************************************)
(* TuyaOnOff: the switch view                                              *)
(***************************************************************************)
\* a slip: the correlator is taken from the attribute, not the endpoint
OnOff_payload_by_attribute(endpoint_id, command_id) ==
    Command(0, 0, TUYA_CMD_BASE + ATTR_ON_OFF, 0, <<1, command_id>>)

\* lines 162-167: cmd_payload
OnOff_payload(endpoint_id, command_id) ==
    Command(0, 0, TUYA_CMD_BASE + endpoint_id, 0, <<1, command_id>>)

\* TuyaOnOff.command on the view of endpoint endpoint_id
OnOff_command(endpoint_id, command_id) ==
    /\ op' = [NoOp EXCEPT !.name = "command", !.command_id = command_id,
                          !.ep = endpoint_id]
    /\ IF command_id \in {0, 1}
       THEN /\ sent' = <<Sent(TUYA_SET_DATA, OnOff_payload(endpoint_id, command_id), TRUE, -1)>>
            /\ ret' = Ret("transport", {}, {})
       ELSE /\ sent' = <<>>
            /\ ret' = Ret("UNSUP_CLUSTER_COMMAND", {}, {})
    /\ updates' = <<>>
    /\ UNCHANGED <<attr_cache, seq, codecVars, remoteVars, viewVars>>

(***************************************************************************)
(* Inputs and specifications                                               *)
(***************************************************************************)
MaxRecords == 2

\* the thermostat attributes the view caches from events
ThermostatCached == {"occupied_heating_setpoint", "running_mode", "running_state"}

MaxSent == 4

MaxEndpoint == 3

SeqStart == 253

\* payloads a device may send: encoded values, and malformed ones (empty, a
\* length byte alone, one byte of value, three bytes of value)
InboundPayloads ==
    {from_value(v) : v \in {IntVal("uint8", 0), IntVal("uint8", 1),
                            IntVal("int16", 200), IntVal("int16", -256)}}
    \cup {<<>>, <<1>>, <<3, 1, 2, 3>>}

InboundFrames ==
    {Command(0, 7, id, 0, d) : id \in Ids, d \in InboundPayloads}

\* the cluster command ids a device may send: 3 is none the cluster declares
InboundCommandIds == {TUYA_SET_DATA, TUYA_GET_DATA, TUYA_SET_DATA_RESPONSE, 3}

WriteEntries ==
    {[attr |-> 263, value |-> n] : n \in {1}}
    \cup {[attr |-> 514, value |-> n] : n \in {200, -10}}
    \cup {[attr |-> UnknownId, value |-> 1]}

RECURSIVE SeqsUpTo(_, _)
SeqsUpTo(S, n) ==
    IF n = 0 THEN {<<>>}
    ELSE SeqsUpTo(S, n - 1) \cup
         {Append(q, x) : q \in {t \in SeqsUpTo(S, n - 1) : Len(t) = n - 1}, x \in S}

WriteRequests == SeqsUpTo(WriteEntries, MaxRecords)

\* the on/off cluster's commands: off, on, toggle, off_with_effect
OnOffCommandIds == {0, 1, 2, 64}

\* frames sent so far, counted on the sequence counter
Used == (seq - SeqStart + 256) % 256

InitCodec ==
    /\ codec \in [pc : {"value"}, v : CodecValues, wire : {<<>>}, out : {NoResult}]

InitRemote ==
    /\ last_code = -1
    /\ rx = NoFrame
    /\ rstatus = "idle"
    /\ lastFwd = NoFrame

InitBridge ==
    /\ attr_cache = [a \in DOMAIN attributes |-> NoValue]
    /\ seq = SeqStart
    /\ op = NoOp
    /\ sent = <<>>
    /\ updates = <<>>
    /\ ret = Ret("none", {}, {})

\* the views of a device after construction: nothing cached, nothing published
InitViews ==
    /\ published = <<>>
    /\ on_off = [e \in 1..MaxEndpoint |-> NoValue]
    /\ thermostat_cache = [a \in ThermostatCached |-> NoValue]
    /\ thermostat_class = "TuyaThermostatCluster"
    /\ ui_cache = [a \in {"keypad_lockout"} |-> NoValue]
    /\ power_cache = [a \in {"battery_percentage_remaining"} |-> NoValue]

CodecInit == InitCodec /\ InitRemote /\ InitBridge /\ InitViews

CodecNext == Encode \/ Decode

SpecCodec == CodecInit /\ [][CodecNext]_vars

RemoteInit == codec = CodecIdle /\ InitRemote /\ InitBridge /\ InitViews

RemoteNext == RemoteStep

SpecRemote == RemoteInit /\ [][RemoteNext]_vars

BridgeRequest == \E c \in InboundCommandIds, f \in InboundFrames :
    handle_cluster_request(f.tsn, c, f)

BridgeRead == \E ids \in SUBSET Ids, allow_cache \in BOOLEAN, only_cache \in BOOLEAN :
    ReadAttributes(ids, allow_cache, only_cache)

BridgeWrite == \E attrs \in WriteRequests :
    /\ Used + Len(attrs) <= MaxSent
    /\ write_attributes(attrs)

SwitchCommand == \E e \in 1..MaxEndpoint, c \in OnOffCommandIds :
    OnOff_command(e, c)

Init == codec = CodecIdle /\ InitRemote /\ InitBridge /\ InitViews

Next == BridgeRequest \/ BridgeRead \/ BridgeWrite \/ SwitchCommand

Spec == Init /\ [][Next]_vars

(***************************************************************************)
(* Properties of TuyaSmartRemote.handle_message (SpecRemote)               *)
(***************************************************************************)
\* the command byte of a frame, where the rewrite of lines 389-394 puts the
\* button code; -1 on no frame
ButtonCode(message) == IF Len(message) >= 3 THEN message[3] ELSE -1

\* the latest frame as the duplicate filter sees it
Normalized(f) == Normalize(f.profile, f.cluster, f.message)

\* C1 as stated, for the frames with the signature: such a frame is
\* forwarded exactly when its button code, taken after the byte-4 rewrite,
\* differs from the button code of the most recently forwarded frame.
C1_ForwardedIffButtonCodeDiffers ==
    [][Matches(rx'.profile, rx'.cluster, rx'.message)
         => (rstatus' = "forwarded"
               <=> ButtonCode(Normalized(rx')) # ButtonCode(lastFwd.message))]_vars

\* C1 amended: a frame of two bytes or more is forwarded exactly when its
\* second byte (message[1], which the rewrite leaves alone) differs from the
\* second byte of the most recently forwarded frame, or nothing was forwarded
\* yet; otherwise it is dropped, and the forwarded frame is the one as
\* rewritten.
C1_ForwardedIffSecondByteDiffers ==
    [][Len(Normalized(rx')) >= 2
         => /\ rstatus' \in {"forwarded", "dropped"}
            /\ rstatus' = "forwarded"
                 <=> (lastFwd = NoFrame \/ Normalized(rx')[2] # lastFwd.message[2])
            /\ rstatus' = "forwarded"
                 => lastFwd' = [rx' EXCEPT !.message = Normalized(rx')]
            /\ rstatus' = "dropped" => lastFwd' = lastFwd]_vars

\* C1 witness: a frame with the signature was dropped although its button
\* code differs from that of the most recently forwarded frame.
C1_Witness ==
    /\ rstatus = "dropped"
    /\ Matches(rx.profile, rx.cluster, rx.message)
    /\ ButtonCode(Normalized(rx)) # ButtonCode(lastFwd.message)

\* C2 as stated: a frame (of two bytes or more) without the signature is
\* forwarded with its bytes unmodified; the duplicate filter never drops it.
C2_NonMatchingAlwaysForwarded ==
    [][(~Matches(rx'.profile, rx'.cluster, rx'.message) /\ Len(rx'.message) >= 2)
         => (rstatus' = "forwarded" /\ lastFwd' = rx')]_vars

\* C2 amended: a frame of two bytes or more without the signature is never
\* rewritten; it is forwarded, bytes unmodified, exactly when its second byte
\* differs from the last_code register, and dropped as a duplicate otherwise.
C2_NonMatchingUnmodifiedButFiltered ==
    [][(~Matches(rx'.profile, rx'.cluster, rx'.message) /\ Len(rx'.message) >= 2)
         => /\ rstatus' \in {"forwarded", "dropped"}
            /\ rstatus' = "forwarded" <=> rx'.message[2] # last_code
            /\ rstatus' = "forwarded" => (lastFwd' = rx' /\ last_code' = rx'.message[2])
            /\ rstatus' = "dropped" => (lastFwd' = lastFwd /\ last_code' = last_code)]_vars

\* C2 witness: a frame of another profile that carries the marker bytes was
\* dropped as a duplicate.
C2_Witness ==
    /\ rstatus = "dropped"
    /\ rx.profile # 260
    /\ Len(rx.message) = 4
    /\ rx.message[3] = Marker
    /\ lastFwd # NoFrame

(***************************************************************************)
(* Properties of the switch view and the attribute bridge (Spec)           *)
(***************************************************************************)
\* C3 as stated: for every endpoint e and every command c among off, on and
\* toggle, TuyaOnOff.command hands the manufacturer cluster exactly one set
\* frame with correlator base + e and payload [1, c].
C3_OnOffToggleAllSent ==
    (op.name = "command" /\ op.command_id \in {0, 1, 2})
      => /\ Len(sent) = 1
         /\ sent[1].command = 0
         /\ sent[1].payload.command_id = 256 + op.ep
         /\ sent[1].payload.data = <<1, op.command_id>>

\* C3 amended: for every endpoint e and every command c among off (0) and on
\* (1) exactly one set frame is handed over, with correlator base + e and
\* payload [1, c]; toggle and every other command send nothing and return
\* UNSUP_CLUSTER_COMMAND.
C3_OnOffSentOthersUnsupported ==
    op.name = "command"
      => IF op.command_id \in {0, 1}
         THEN /\ Len(sent) = 1
              /\ sent[1].command = 0
              /\ sent[1].payload.command_id = 256 + op.ep
              /\ sent[1].payload.data = <<1, op.command_id>>
         ELSE /\ sent = <<>>
              /\ ret.status = "UNSUP_CLUSTER_COMMAND"

\* C3 witness: an on command on the view of endpoint 3 sent its frame.
C3_Witness ==
    /\ op.name = "command"
    /\ op.ep = 3
    /\ op.command_id = 1
    /\ Len(sent) = 1

\* C4: every set frame an operation builds carries the next value of the
\* sequence counter in its sequence field, the counter advancing once per
\* frame.
C4_FreshSequencePerFrame ==
    [][/\ \A i \in 1..Len(sent') : sent'[i].payload.tsn = (seq + i) % 256
       /\ seq' = (seq + Len(sent')) % 256]_vars

\* C5: a write request whose attributes give k records sends exactly k set
\* frames (command 0), one per record in request order, each with status 0,
\* function 0, the record's attribute id as correlator and the encoded value
\* as payload, no reply expected, and returns SUCCESS.
C5_WriteSendsOneFramePerRecord ==
    op.name = "write_attributes"
      => LET recs == SelectSeq(op.attributes, LAMBDA a : a.attr \in {263, 514})
         IN  /\ Len(sent) = Len(recs)
             /\ \A i \in 1..Len(recs) :
                  /\ sent[i].command = 0
                  /\ sent[i].expect_reply = FALSE
                  /\ sent[i].payload.status = 0
                  /\ sent[i].payload.function = 0
                  /\ sent[i].payload.command_id = recs[i].attr
                  /\ sent[i].payload.data =
                       from_value(IntVal(attributes[recs[i].attr], recs[i].value))
                  /\ sent[i].payload.data[1] = Len(sent[i].payload.data) - 1
             /\ ret.status = "SUCCESS"

\* C5 witness: a request of two attributes sent two frames, the 16-bit
\* value -10 as [2, 0xFF, 0xF6].
C5_Witness ==
    /\ op.name = "write_attributes"
    /\ Len(sent) = 2
    /\ sent[1].payload.command_id = 263
    /\ sent[2].payload.command_id = 514
    /\ sent[2].payload.data = <<2, 255, 246>>

\* C6: a read on the bridge asks the device for nothing, whatever flags the
\* caller passes: it returns the cached values of the attributes asked for,
\* and an attribute not cached is left out.
C6_ReadNeverOnTheWire ==
    op.name = "read_attributes"
      => /\ ret.wire = {}
         /\ sent = <<>>
         /\ ret.success =
              {<<a, attr_cache[a]>> : a \in {b \in op.ids \cap {263, 514} : attr_cache[b] # NoValue}}

\* C6 witness: a read with both flags off of a cached and an uncached attribute.
C6_Witness ==
    /\ op.name = "read_attributes"
    /\ ~op.allow_cache
    /\ ~op.only_cache
    /\ op.ids = {263, 514}
    /\ attr_cache[263] # NoValue
    /\ attr_cache[514] = NoValue

\* the value a payload decodes to, in the declared type of datapoint id
Decoded(frame) == to_value(frame.data, attributes[frame.command_id])

\* C7: after a get or set-response whose correlator is a declared datapoint
\* (and whose payload decodes), the cached value of that datapoint is the
\* decoded payload, set by one _update_attribute call, and no other cached
\* value changes; any other command id goes to default handling and changes
\* no cached value.
C7_InboundUpdatesDeclaredDatapoint ==
    [][op'.name = "handle_cluster_request"
         => /\ (op'.command_id \in {1, 2}
                  /\ op'.frame.command_id \in {263, 514}
                  /\ Decoded(op'.frame).ok)
                 => /\ attr_cache'[op'.frame.command_id] = Decoded(op'.frame).value
                    /\ \A a \in {263, 514, 1028} \ {op'.frame.command_id} :
                         attr_cache'[a] = attr_cache[a]
                    /\ updates' = <<[attrid |-> op'.frame.command_id,
                                     value |-> Decoded(op'.frame).value]>>
            /\ op'.command_id \notin {1, 2}
                 => /\ attr_cache' = attr_cache
                    /\ updates' = <<>>
                    /\ ret'.status = "default"]_vars

\* C7 witness: a set-response set datapoint 0x0202 to -256 while datapoint
\* 0x0107 kept its cached value.
C7_Witness ==
    /\ op.name = "handle_cluster_request"
    /\ op.command_id = 2
    /\ op.frame.command_id = 514
    /\ op.frame.data = <<2, 255, 0>>
    /\ attr_cache[514] = IntVal("int16", -256)
    /\ attr_cache[263] = IntVal("uint8", 1)

\* C8: a get or set-response whose correlator is not a declared datapoint
\* leaves the cache as it was, makes no update, raises nothing and returns.
C8_UnknownDatapointDropped ==
    [][(op'.name = "handle_cluster_request"
          /\ op'.command_id \in {1, 2}
          /\ op'.frame.command_id \notin {263, 514})
         => /\ attr_cache' = attr_cache
            /\ updates' = <<>>
            /\ ret'.status = "none"]_vars

\* C8 witness: an undeclared datapoint with an empty payload was dropped
\* without an error while the cache held a value.
C8_Witness ==
    /\ op.name = "handle_cluster_request"
    /\ op.command_id = 1
    /\ op.frame.command_id = 999
    /\ op.frame.data = <<>>
    /\ ret.status = "none"
    /\ attr_cache[263] # NoValue

(***************************************************************************)
(* Properties of the codec (SpecCodec)                                     *)
(***************************************************************************)
\* C9: round trip: from_value(v).to_value(type of v) is v.
C9_RoundTrip ==
    codec.pc = "decoded" => (codec.out.ok /\ codec.out.value = codec.v)

\* C9 witness: the negative 16-bit value -256 came back.
C9_Witness ==
    /\ codec.pc = "decoded"
    /\ codec.v = IntVal("int16", -256)
    /\ codec.wire = <<2, 255, 0>>

RECURSIVE FromBE(_, _)
FromBE(bytes, k) == IF k = 0 THEN 0 ELSE FromBE(bytes, k - 1) * 256 + bytes[k]

\* C10: wire layout: from_value(v) is [n, S[n-1], ..., S[0]] for the
\* little-endian serialization S of v, of length n: the first byte is the
\* payload's length less one, and the rest of an unsigned number's payload is
\* the number big-endian.
C10_WireLayout ==
    codec.pc \in {"encoded", "decoded"}
      => LET S == Serialize(codec.v)
             n == Len(S)
         IN  /\ Len(codec.wire) = n + 1
             /\ codec.wire[1] = n
             /\ codec.wire[1] = Len(codec.wire) - 1
             /\ \A i \in 1..n : codec.wire[1 + i] = S[n + 1 - i]
             /\ codec.v.type \in {"uint8", "uint16", "uint24"}
                  => FromBE(Tail(codec.wire), n) = codec.v.num

\* C10 witness: the longest string, 255 serialized bytes, was encoded.
C10_Witness ==
    /\ codec.pc = "encoded"
    /\ codec.v.type = "string"
    /\ Len(codec.v.str) = 254
    /\ codec.wire[1] = 255
    /\ Len(codec.wire) = 256

(***************************************************************************)
(* A switch device (TuyaSwitch): TuyaManufacturerClusterOnOff, the switch  *)
(* bus and the TuyaOnOff view of each endpoint 1..MaxEndpoint              *)
(***************************************************************************)
SWITCH_EVENT == "switch_event"

\* a slip: the state is read from the first payload byte, the length
switch_event_args_first_byte(frame) ==
    <<frame.command_id - TUYA_CMD_BASE, frame.data[1]>>

\* lines 188-189: the channel and the state published for a frame
switch_event_args(frame) ==
    <<frame.command_id - TUYA_CMD_BASE, frame.data[2]>>

\* TuyaOnOff.switch_event on the view of endpoint endpoint_id: the value of
\* its on_off attribute afterwards
switch_event(endpoint_id, channel, state) == IntVal("uint8", state)

\* Bus.listener_event(SWITCH_EVENT, channel, state): every listener's
\* switch_event is called before it returns; the listeners are the views,
\* registered at line 139
listener_event(channel, state) ==
    [e \in 1..MaxEndpoint |-> switch_event(e, channel, state)]

\* TuyaManufacturerClusterOnOff.handle_cluster_request; data[1] raises
\* IndexError on a payload of fewer than two bytes
OnOff_handle_cluster_request(tsn, command_id, frame) ==
    /\ op' = [NoOp EXCEPT !.name = "switch_request", !.command_id = command_id,
                          !.frame = frame]
    /\ IF command_id \notin {TUYA_SET_DATA_RESPONSE, TUYA_GET_DATA}
       THEN /\ ret' = Ret("none", {}, {})
            /\ published' = <<>>
            /\ updates' = <<>>
            /\ UNCHANGED on_off
       ELSE IF Len(frame.data) < 2
       THEN /\ ret' = Ret("raised", {}, {})
            /\ published' = <<>>
            /\ updates' = <<>>
            /\ UNCHANGED on_off
       ELSE LET a == switch_event_args(frame)
            IN  /\ published' = <<[event |-> SWITCH_EVENT, args |-> a]>>
                /\ on_off' = listener_event(a[1], a[2])
                /\ updates' = [e \in 1..MaxEndpoint |->
                                 [attrid |-> ATTR_ON_OFF, value |-> on_off'[e]]]
                /\ ret' = Ret("none", {}, {})
    /\ sent' = <<>>
    /\ UNCHANGED <<attr_cache, seq, codecVars, remoteVars>>
    /\ UNCHANGED <<thermostat_cache, thermostat_class, ui_cache, power_cache>>

\* frames of a switch device: channel 0 has no view
SwitchFrames ==
    {Command(0, 7, TUYA_CMD_BASE + c, 0, d) :
        c \in 0..MaxEndpoint, d \in {<<1, 0>>, <<1, 1>>, <<1>>}}

SwitchRequest == \E c \in {TUYA_SET_DATA, TUYA_GET_DATA, TUYA_SET_DATA_RESPONSE},
                    f \in SwitchFrames :
    OnOff_handle_cluster_request(f.tsn, c, f)

SwitchNext == SwitchRequest \/ SwitchCommand

SpecSwitch == Init /\ [][SwitchNext]_vars

\* C11: after a get or set-response with correlator base + c and payload
\* [_, s], the switch event (c, s) has been published on the switch bus and
\* the on_off attribute of the view of endpoint c is s.
C11_SwitchEventSetsChannel ==
    (op.name = "switch_request" /\ op.command_id \in {1, 2} /\ Len(op.frame.data) >= 2)
      => /\ published = <<[event |-> "switch_event",
                           args |-> <<op.frame.command_id - 256, op.frame.data[2]>>]>>
         /\ \A e \in 1..MaxEndpoint :
              e = op.frame.command_id - 256 => on_off[e] = IntVal("uint8", op.frame.data[2])

\* C11 witness: a set-response for channel 1 with state 0 turned the view of
\* endpoint 1 off.
C11_Witness ==
    /\ op.name = "switch_request"
    /\ op.command_id = 2
    /\ op.frame.command_id = 257
    /\ op.frame.data = <<1, 0>>
    /\ on_off[1] = IntVal("uint8", 0)

\* C19: a switch event for channel c leaves the on_off attribute of the view
\* of every other endpoint as it was.
C19_OtherChannelsUnchanged ==
    [][(op'.name = "switch_request" /\ published' # <<>>)
         => \A e \in 1..MaxEndpoint :
              e # published'[1].args[1] => on_off'[e] = on_off[e]]_vars

(***************************************************************************)
(* TuyaThermostatCluster: the thermostat view                              *)
(***************************************************************************)
RunningMode_Off == 0

RunningMode_Heat == 4

RunningState_Idle == 0

RunningState_Heat_State_On == 1

SetpointMode_Heat == 0

SetpointMode_Cool == 1

SetpointMode_Both == 2

EnumVal(n) == IntVal("enum8", n)

\* self.attridx of the Thermostat cluster, for the attributes used here
attridx ==
    ("occupied_heating_setpoint" :> 18) @@ ("min_heat_setpoint_limit" :> 21)
    @@ ("system_mode" :> 28) @@ ("running_mode" :> 30)
    @@ ("programing_oper_mode" :> 37) @@ ("running_state" :> 41)

ClearViewLog ==
    /\ sent' = <<>>
    /\ published' = <<>>

\* TuyaThermostatCluster.temperature_change
temperature_change(attr, value) ==
    /\ op' = [NoOp EXCEPT !.name = "temperature_change", !.value = value]
    /\ thermostat_cache' = [thermostat_cache EXCEPT ![attr] = IntVal("int16", value)]
    /\ updates' = <<[attrid |-> attridx[attr], value |-> IntVal("int16", value)]>>
    /\ ret' = Ret("none", {}, {})
    /\ ClearViewLog
    /\ UNCHANGED <<attr_cache, seq, codecVars, remoteVars>>
    /\ UNCHANGED <<on_off, thermostat_class, ui_cache, power_cache>>

\* a slip: only the value 1 is taken for heating
state_change_values_only_one(value) ==
    IF value = 1
    THEN [mode |-> EnumVal(RunningMode_Heat), state |-> EnumVal(RunningState_Heat_State_On)]
    ELSE [mode |-> EnumVal(RunningMode_Off), state |-> EnumVal(RunningState_Idle)]

\* lines 218-223: mode and state for a running-mode value
state_change_values(value) ==
    IF value = 0
    THEN [mode |-> EnumVal(RunningMode_Off), state |-> EnumVal(RunningState_Idle)]
    ELSE [mode |-> EnumVal(RunningMode_Heat), state |-> EnumVal(RunningState_Heat_State_On)]

\* TuyaThermostatCluster.state_change
state_change(value) ==
    LET r == state_change_values(value)
    IN  /\ op' = [NoOp EXCEPT !.name = "state_change", !.value = value]
        /\ thermostat_cache' = [thermostat_cache EXCEPT !["running_mode"] = r.mode,
                                                        !["running_state"] = r.state]
        /\ updates' = <<[attrid |-> attridx["running_mode"], value |-> r.mode],
                        [attrid |-> attridx["running_state"], value |-> r.state]>>
        /\ ret' = Ret("none", {}, {})
        /\ ClearViewLog
        /\ UNCHANGED <<attr_cache, seq, codecVars, remoteVars>>
        /\ UNCHANGED <<on_off, thermostat_class, ui_cache, power_cache>>

\* TuyaThermostatCluster.map_attribute: the base class maps nothing
map_attribute(attribute, value) == <<>>

\* map_attribute of a device model, as a list of [attr, value] datapoint
\* writes: the setpoint goes to datapoint 0x0202 in tenths, both mode
\* attributes go to datapoint 0x0404, every other attribute to nothing
device_map_attribute(attribute, value) ==
    CASE attribute = "occupied_heating_setpoint" ->
            <<[attr |-> 514, value |-> value \div 10]>>
      [] attribute = "system_mode" ->
            <<[attr |-> 1028, value |-> IF value = 0 THEN 0 ELSE 1]>>
      [] attribute = "programing_oper_mode" ->
            <<[attr |-> 1028, value |-> 2]>>
      [] OTHER -> <<>>

\* line 243: self.map_attribute, by the class of the view
self_map_attribute(class, attribute, value) ==
    IF class = "TuyaThermostatCluster"
    THEN map_attribute(attribute, value)
    ELSE device_map_attribute(attribute, value)

\* dict.update for one key: the value replaced in place, or the key appended
DictSet(d, entry) ==
    IF \E i \in 1..Len(d) : d[i].attr = entry.attr
    THEN [i \in 1..Len(d) |-> IF d[i].attr = entry.attr THEN entry ELSE d[i]]
    ELSE Append(d, entry)

RECURSIVE DictUpdate(_, _)
DictUpdate(d, new) ==
    IF new = <<>> THEN d ELSE DictUpdate(DictSet(d, Head(new)), Tail(new))

\* the view's self._write_attr_records(attributes): a record for each
\* attribute the Thermostat cluster declares
Thermostat_write_attr_records(attrs) ==
    SelectSeq(attrs, LAMBDA a : a.attr \in DOMAIN attridx)

\* lines 240-257: manufacturer_attrs
RECURSIVE manufacturer_attrs(_, _)
manufacturer_attrs(class, records) ==
    IF records = <<>> THEN <<>>
    ELSE DictUpdate(manufacturer_attrs(class, SubSeq(records, 1, Len(records) - 1)),
                    self_map_attribute(class, records[Len(records)].attr,
                                       records[Len(records)].value))

\* the frames the bridge's write_attributes sends for attrs from counter s
bridge_sends(attrs, s) ==
    LET records == _write_attr_records(attrs)
    IN  [i \in 1..Len(records) |-> write_command(records[i], get_sequence(s, i))]

\* a slip: the test of line 259 is missing
Thermostat_write_unchecked(class, attrs, s) ==
    LET records == Thermostat_write_attr_records(attrs)
        m == manufacturer_attrs(class, records)
    IN  IF records = <<>> THEN [status |-> "SUCCESS", sent |-> <<>>]
        ELSE [status |-> "SUCCESS", sent |-> bridge_sends(m, s)]

\* TuyaThermostatCluster.write_attributes: the status returned and the
\* frames sent through the bridge
Thermostat_write(class, attrs, s) ==
    LET records == Thermostat_write_attr_records(attrs)
        m == manufacturer_attrs(class, records)
    IN  IF records = <<>> THEN [status |-> "SUCCESS", sent |-> <<>>]
        ELSE IF m = <<>> THEN [status |-> "FAILURE", sent |-> <<>>]
        ELSE [status |-> "SUCCESS", sent |-> bridge_sends(m, s)]

\* a slip: the written values are stored in the view's cache, as the
\* write_attributes this class overrides does on a successful write
cache_after_write_stored(cache, attrs) ==
    [a \in DOMAIN cache |->
        IF \E i \in 1..Len(attrs) : attrs[i].attr = a
        THEN IntVal("int16", attrs[CHOOSE i \in 1..Len(attrs) : attrs[i].attr = a].value)
        ELSE cache[a]]

\* lines 232-266 make no _update_attribute call: the view's cache after a
\* write is the cache before it
cache_after_write(cache, attrs) == cache

Thermostat_write_attributes(attrs) ==
    LET r == Thermostat_write(thermostat_class, attrs, seq)
    IN  /\ op' = [NoOp EXCEPT !.name = "thermostat_write_attributes", !.attributes = attrs]
        /\ sent' = r.sent
        /\ seq' = get_sequence(seq, Len(r.sent))
        /\ ret' = Ret(r.status, {}, {})
        /\ thermostat_cache' = cache_after_write(thermostat_cache, attrs)
        /\ updates' = <<>>
        /\ published' = <<>>
        /\ UNCHANGED <<attr_cache, codecVars, remoteVars>>
        /\ UNCHANGED <<on_off, thermostat_class, ui_cache, power_cache>>

\* LocalDataCluster.read_attributes of one attribute: it is among the
\* successes exactly when the view's cache holds it
LocalData_read(cache, attr) ==
    IF cache[attr] # NoValue THEN {<<attr, cache[attr]>>} ELSE {}

\* a slip: the offset is added as it is
offset_setpoint_unscaled(current, offset) == current + offset

\* line 296: current + offset * 10
offset_setpoint(current, offset) == current + offset * 10

\* TuyaThermostatCluster.command: the status returned, the write_attributes
\* calls made on the view and the frames sent
Thermostat_command_result(class, command_id, mode, offset, cache, s) ==
    IF command_id # 0
    THEN [status |-> "UNSUP_CLUSTER_COMMAND", calls |-> <<>>, sent |-> <<>>]
    ELSE IF mode \notin {SetpointMode_Heat, SetpointMode_Both}
    THEN [status |-> "INVALID_VALUE", calls |-> <<>>, sent |-> <<>>]
    ELSE IF LocalData_read(cache, "occupied_heating_setpoint") = {}
    THEN [status |-> "FAILURE", calls |-> <<>>, sent |-> <<>>]
    ELSE LET request == <<[attr |-> "occupied_heating_setpoint",
                           value |-> offset_setpoint(cache["occupied_heating_setpoint"].num,
                                                     offset)]>>
             r == Thermostat_write(class, request, s)
         IN  [status |-> r.status, calls |-> <<request>>, sent |-> r.sent]

Thermostat_command(command_id, mode, offset) ==
    LET r == Thermostat_command_result(thermostat_class, command_id, mode, offset,
                                       thermostat_cache, seq)
    IN  /\ op' = [NoOp EXCEPT !.name = "thermostat_command", !.command_id = command_id,
                              !.mode = mode, !.offset = offset, !.calls = r.calls]
        /\ sent' = r.sent
        /\ seq' = get_sequence(seq, Len(r.sent))
        /\ ret' = Ret(r.status, {}, {})
        /\ updates' = <<>>
        /\ published' = <<>>
        /\ UNCHANGED <<attr_cache, codecVars, remoteVars>>
        /\ UNCHANGED <<on_off, thermostat_cache, thermostat_class, ui_cache, power_cache>>

\* write requests on the thermostat view: a mapped setpoint, two mode
\* attributes mapped to one datapoint, an attribute no device model maps,
\* and an attribute id the cluster does not declare
ThermostatEntries ==
    {[attr |-> "occupied_heating_setpoint", value |-> 210],
     [attr |-> "system_mode", value |-> 4],
     [attr |-> "programing_oper_mode", value |-> 1],
     [attr |-> "min_heat_setpoint_limit", value |-> 500],
     [attr |-> "0xFFF0", value |-> 1]}

ThermostatRequests == SeqsUpTo(ThermostatEntries, MaxRecords)

ThermostatState == \E v \in {0, 1, 5} : state_change(v)

ThermostatTemperature == \E v \in {200, 215} :
    temperature_change("occupied_heating_setpoint", v)

ThermostatWrite == \E attrs \in ThermostatRequests :
    /\ Used + Len(attrs) <= MaxSent
    /\ Thermostat_write_attributes(attrs)

ThermostatCommand ==
    \E c \in {0, 1}, m \in {SetpointMode_Heat, SetpointMode_Cool, SetpointMode_Both},
       o \in {-10, 5} :
        /\ Used + 1 <= MaxSent
        /\ Thermostat_command(c, m, o)

ThermostatInit ==
    /\ codec = CodecIdle
    /\ InitRemote
    /\ InitBridge
    /\ published = <<>>
    /\ on_off = [e \in 1..MaxEndpoint |-> NoValue]
    /\ thermostat_cache = [a \in ThermostatCached |-> NoValue]
    /\ thermostat_class \in {"TuyaThermostatCluster", "DeviceThermostat"}
    /\ ui_cache = [a \in {"keypad_lockout"} |-> NoValue]
    /\ power_cache = [a \in {"battery_percentage_remaining"} |-> NoValue]

ThermostatNext ==
    ThermostatState \/ ThermostatTemperature \/ ThermostatWrite \/ ThermostatCommand

SpecThermostat == ThermostatInit /\ [][ThermostatNext]_vars

RunningPair == <<thermostat_cache["running_mode"], thermostat_cache["running_state"]>>

\* C12: after a running-mode event the cached pair (running_mode,
\* running_state) is (Off, Idle) for the value 0 and (Heat, HeatOn) for any
\* other value, and the pair is never a mixed combination.
C12_RunningPairConsistent ==
    /\ op.name = "state_change" =>
          RunningPair = IF op.value = 0
                        THEN <<IntVal("enum8", 0), IntVal("enum8", 0)>>
                        ELSE <<IntVal("enum8", 4), IntVal("enum8", 1)>>
    /\ RunningPair \in {<<NoValue, NoValue>>,
                        <<IntVal("enum8", 0), IntVal("enum8", 0)>>,
                        <<IntVal("enum8", 4), IntVal("enum8", 1)>>}

C12_Witness ==
    /\ op.name = "state_change"
    /\ op.value = 5
    /\ RunningPair = <<IntVal("enum8", 4), IntVal("enum8", 1)>>

\* C13: the relative setpoint command (command id 0, mode Heat or Both,
\* offset o) with a cached heating setpoint s makes exactly one
\* write_attributes call on the view, of occupied_heating_setpoint with the
\* value s + 10 * o, and returns that call's result (for a device model
\* mapping the setpoint: SUCCESS and one datapoint frame); with no cached
\* setpoint it returns FAILURE, makes no call and sends no frame.
C13_RelativeSetpointWritesScaledOffset ==
    [][(op'.name = "thermostat_command" /\ op'.command_id = 0 /\ op'.mode \in {0, 2}) =>
          LET s == thermostat_cache["occupied_heating_setpoint"]
          IN  IF s.type = "none"
              THEN /\ ret'.status = "FAILURE"
                   /\ op'.calls = <<>>
                   /\ sent' = <<>>
              ELSE LET request == <<[attr |-> "occupied_heating_setpoint",
                                     value |-> s.num + 10 * op'.offset]>>
                       w == Thermostat_write(thermostat_class, request, seq)
                   IN  /\ op'.calls = <<request>>
                       /\ ret'.status = w.status
                       /\ sent' = w.sent
                       /\ thermostat_class = "DeviceThermostat" =>
                             /\ ret'.status = "SUCCESS"
                             /\ Len(sent') = 1
                             /\ sent'[1].payload.command_id = 514
                             /\ sent'[1].payload.data =
                                   <<2, 0, (s.num + 10 * op'.offset) \div 10>>]_vars

C13_Witness ==
    /\ op.name = "thermostat_command"
    /\ op.offset = -10
    /\ op.calls = <<(<<[attr |-> "occupied_heating_setpoint", value |-> 100]>>)>>
    /\ ret.status = "SUCCESS"
    /\ Len(sent) = 1
    /\ sent[1].payload.data = <<2, 0, 10>>

\* the attributes of the request that the Thermostat cluster declares
DeclaredAttribute(a) ==
    a.attr \in {"occupied_heating_setpoint", "system_mode", "programing_oper_mode",
                "min_heat_setpoint_limit"}

\* an attribute for which the view's device model has no datapoint
Unmapped(class, a) ==
    \/ class = "TuyaThermostatCluster"
    \/ a.attr \notin {"occupied_heating_setpoint", "system_mode", "programing_oper_mode"}

FailsWithoutEffect ==
    /\ ret'.status = "FAILURE"
    /\ sent' = <<>>
    /\ seq' = seq
    /\ UNCHANGED <<attr_cache, on_off, thermostat_cache, ui_cache, power_cache>>

C20_SuccessOnlyIfEveryAttributeSent ==
    (op.name = "thermostat_write_attributes" /\ ret.status = "SUCCESS" /\ sent # <<>>) =>
        \A i \in 1..Len(op.attributes) :
            LET m == self_map_attribute(thermostat_class, op.attributes[i].attr,
                                        op.attributes[i].value)
            IN  /\ DeclaredAttribute(op.attributes[i])
                /\ m # <<>>
                /\ \A k \in 1..Len(m) : \E j \in 1..Len(sent) :
                      /\ sent[j].payload.command_id = m[k].attr
                      /\ sent[j].payload.data =
                            from_value(IntVal(attributes[m[k].attr], m[k].value))

(***************************************************************************)
(* TuyaUserInterfaceCluster and TuyaPowerConfigurationCluster              *)
(***************************************************************************)
KeypadLockout_No_lockout == 0

KeypadLockout_Level_1_lockout == 1

\* the child lock datapoint that the device model declares for the view
_CHILD_LOCK_ATTR == 263

\* the attributes the UserInterface cluster declares
UserInterfaceAttributes ==
    {"temperature_display_mode", "keypad_lockout", "schedule_programming_visibility"}

\* lines 311-314: the lockout for a child lock value
child_lock_lockout(mode) ==
    IF mode = 0
    THEN EnumVal(KeypadLockout_No_lockout)
    ELSE EnumVal(KeypadLockout_Level_1_lockout)

\* TuyaUserInterfaceCluster.child_lock_change
child_lock_change(mode) ==
    /\ op' = [NoOp EXCEPT !.name = "child_lock_change", !.value = mode]
    /\ ui_cache' = [ui_cache EXCEPT !["keypad_lockout"] = child_lock_lockout(mode)]
    /\ updates' = <<[attrid |-> 1, value |-> child_lock_lockout(mode)]>>
    /\ ret' = Ret("none", {}, {})
    /\ ClearViewLog
    /\ UNCHANGED <<attr_cache, seq, codecVars, remoteVars>>
    /\ UNCHANGED <<on_off, thermostat_cache, thermostat_class, power_cache>>

\* a slip: the lockout level is written as it is
lock_value_level(value) == value

\* line 325: the child lock value for a keypad_lockout value
lock_value(value) == IF value = KeypadLockout_No_lockout THEN 0 ELSE 1

\* TuyaUserInterfaceCluster.write_attributes: the status returned and the
\* frames sent through the bridge
UI_write(attrs, s) ==
    LET records == SelectSeq(attrs, LAMBDA a : a.attr \in UserInterfaceAttributes)
        locks == SelectSeq(records, LAMBDA a : a.attr = "keypad_lockout")
    IN  IF locks # <<>>
        THEN [status |-> "SUCCESS",
              sent |-> bridge_sends(<<[attr |-> _CHILD_LOCK_ATTR,
                                       value |-> lock_value(locks[1].value)]>>, s)]
        ELSE [status |-> "FAILURE", sent |-> <<>>]

UI_write_attributes(attrs) ==
    LET r == UI_write(attrs, seq)
    IN  /\ op' = [NoOp EXCEPT !.name = "ui_write_attributes", !.attributes = attrs]
        /\ sent' = r.sent
        /\ seq' = get_sequence(seq, Len(r.sent))
        /\ ret' = Ret(r.status, {}, {})
        /\ updates' = <<>>
        /\ published' = <<>>
        /\ UNCHANGED <<attr_cache, codecVars, remoteVars>>
        /\ UNCHANGED <<on_off, thermostat_cache, thermostat_class, ui_cache, power_cache>>

\* a slip: the percentage is stored as reported
battery_percentage_as_reported(value) == value

\* line 343: value * 2
battery_percentage(value) == value * 2

\* TuyaPowerConfigurationCluster.battery_change
battery_change(value) ==
    /\ op' = [NoOp EXCEPT !.name = "battery_change", !.value = value]
    /\ power_cache' = [power_cache EXCEPT !["battery_percentage_remaining"] =
                          IntVal("uint8", battery_percentage(value))]
    /\ updates' = <<[attrid |-> 33, value |-> IntVal("uint8", battery_percentage(value))]>>
    /\ ret' = Ret("none", {}, {})
    /\ ClearViewLog
    /\ UNCHANGED <<attr_cache, seq, codecVars, remoteVars>>
    /\ UNCHANGED <<on_off, thermostat_cache, thermostat_class, ui_cache>>

\* write requests on the user-interface view: the three lockout values of
\* interest, another declared attribute and an undeclared attribute id
UIEntries ==
    {[attr |-> "keypad_lockout", value |-> 0],
     [attr |-> "keypad_lockout", value |-> 1],
     [attr |-> "keypad_lockout", value |-> 2],
     [attr |-> "temperature_display_mode", value |-> 1],
     [attr |-> "0xFFF0", value |-> 1]}

UIRequests == SeqsUpTo(UIEntries, MaxRecords)

BatteryValues == {0, 37, 50}

ChildLock == \E m \in {0, 1, 2} : child_lock_change(m)

UIWrite == \E attrs \in UIRequests :
    /\ Used + 1 <= MaxSent
    /\ UI_write_attributes(attrs)

Battery == \E v \in BatteryValues : battery_change(v)

UINext == ChildLock \/ UIWrite \/ Battery

SpecUI == Init /\ [][UINext]_vars

\* the first keypad_lockout value of a request
FirstLockout(attrs) ==
    attrs[CHOOSE i \in 1..Len(attrs) :
            /\ attrs[i].attr = "keypad_lockout"
            /\ \A j \in 1..(i - 1) : attrs[j].attr # "keypad_lockout"].value

\* C15: a lockout event with value v caches keypad_lockout = no lockout for
\* v = 0 and level-1 lockout otherwise; a write of keypad_lockout with value
\* x sends exactly one datapoint write, to the child lock datapoint, with the
\* value 0 if x is no lockout and 1 otherwise; a write naming no
\* keypad_lockout returns FAILURE and sends nothing.
C15_LockoutBothDirections ==
    /\ op.name = "child_lock_change" =>
          ui_cache["keypad_lockout"] =
              IF op.value = 0 THEN IntVal("enum8", 0) ELSE IntVal("enum8", 1)
    /\ op.name = "ui_write_attributes" =>
          IF \E i \in 1..Len(op.attributes) : op.attributes[i].attr = "keypad_lockout"
          THEN /\ Len(sent) = 1
               /\ sent[1].command = 0
               /\ sent[1].payload.command_id = 263
               /\ sent[1].payload.data =
                     <<1, IF FirstLockout(op.attributes) = 0 THEN 0 ELSE 1>>
               /\ ret.status = "SUCCESS"
          ELSE /\ ret.status = "FAILURE"
               /\ sent = <<>>

C15_Witness ==
    /\ op.name = "ui_write_attributes"
    /\ op.attributes = <<[attr |-> "keypad_lockout", value |-> 2]>>
    /\ ui_cache["keypad_lockout"] = IntVal("enum8", 1)
    /\ Len(sent) = 1
    /\ sent[1].payload.data = <<1, 1>>

\* C16: after a battery event with value v the cached
\* battery_percentage_remaining is 2 * v, so 0..50 is stored as 0..100.
C16_BatteryDoubled ==
    /\ op.name = "battery_change" =>
          power_cache["battery_percentage_remaining"] = IntVal("uint8", 2 * op.value)
    /\ power_cache["battery_percentage_remaining"].num \in 0..100

C16_Witness ==
    /\ op.name = "battery_change"
    /\ op.value = 37
    /\ power_cache["battery_percentage_remaining"] = IntVal("uint8", 74)

(***************************************************************************)
(* The outbound operations of every view, between inbound updates          *)
(***************************************************************************)
\* one inbound update for each cache: a report of datapoint 0x0202 decoded
\* by the bridge, a switch report, and one event on each bus
OutboundEvent ==
    \/ handle_cluster_request(7, TUYA_GET_DATA, Command(0, 7, 514, 0, <<2, 0, 21>>))
    \/ OnOff_handle_cluster_request(7, TUYA_GET_DATA,
                                    Command(0, 7, TUYA_CMD_BASE + 1, 0, <<1, 1>>))
    \/ temperature_change("occupied_heating_setpoint", 200)
    \/ state_change(5)
    \/ child_lock_change(1)
    \/ battery_change(37)

OutboundBridgeWrite ==
    \E attrs \in {<<[attr |-> 514, value |-> 200]>>,
                  <<[attr |-> 263, value |-> 1], [attr |-> 514, value |-> -10]>>} :
        /\ Used + Len(attrs) <= MaxSent
        /\ write_attributes(attrs)

OutboundBridgeRead == ReadAttributes({514}, FALSE, FALSE)

OutboundSwitchCommand == \E c \in {0, 1, 2} : OnOff_command(1, c)

OutboundThermostatWrite ==
    \E attrs \in {<<[attr |-> "occupied_heating_setpoint", value |-> 210]>>,
                  <<[attr |-> "min_heat_setpoint_limit", value |-> 500]>>,
                  <<[attr |-> "system_mode", value |-> 4],
                    [attr |-> "occupied_heating_setpoint", value |-> 210]>>} :
        /\ Used + Len(attrs) <= MaxSent
        /\ Thermostat_write_attributes(attrs)

OutboundThermostatCommand ==
    \E m \in {SetpointMode_Heat, SetpointMode_Cool}, o \in {-10, 5} :
        /\ Used + 1 <= MaxSent
        /\ Thermostat_command(0, m, o)

OutboundUIWrite ==
    \E attrs \in {<<[attr |-> "keypad_lockout", value |-> 0]>>,
                  <<[attr |-> "temperature_display_mode", value |-> 1]>>} :
        /\ Used + 1 <= MaxSent
        /\ UI_write_attributes(attrs)

OutboundNext ==
    \/ OutboundEvent
    \/ OutboundBridgeWrite
    \/ OutboundBridgeRead
    \/ OutboundSwitchCommand
    \/ OutboundThermostatWrite
    \/ OutboundThermostatCommand
    \/ OutboundUIWrite

SpecOutbound == ThermostatInit /\ [][OutboundNext]_vars

\* C17: a bridge write_attributes, a thermostat write_attributes, a
\* thermostat relative setpoint command, a lockout write and a switch
\* command leave every cached attribute value as it was; a cached value
\* changes only in a step that decodes an inbound frame or delivers a bus
\* event.
C17_OutboundLeavesCaches ==
    [][/\ op'.name \in {"write_attributes", "thermostat_write_attributes",
                        "thermostat_command", "ui_write_attributes", "command"}
          => UNCHANGED <<attr_cache, on_off, thermostat_cache, ui_cache, power_cache>>
       /\ ~(UNCHANGED <<attr_cache, on_off, thermostat_cache, ui_cache, power_cache>>)
          => op'.name \in {"handle_cluster_request", "switch_request", "state_change",
                           "temperature_change", "child_lock_change",
                           "battery_change"}]_vars

C17_Witness ==
    /\ op.name = "thermostat_write_attributes"
    /\ ret.status = "SUCCESS"
    /\ Len(sent) = 1
    /\ sent[1].payload.data = <<2, 0, 21>>
    /\ thermostat_cache["occupied_heating_setpoint"] = IntVal("int16", 200)
    /\ attr_cache[514] = NoValue

(***************************************************************************)
(* The rewrite of TuyaSmartRemote.handle_message (SpecRemote)              *)
(***************************************************************************)
\* C18: a frame with the signature (profile 260, cluster 6, four bytes,
\* byte 0 = 0x01, byte 2 = 0xFD) is rewritten to <<byte 0, byte 1, byte 3,
\* 0>> before anything else is done with it: the duplicate filter examines
\* the rewritten frame and the rewritten frame is the one forwarded.
C18_SignatureFrameRewritten ==
    [][(/\ rx'.profile = 260
        /\ rx'.cluster = 6
        /\ Len(rx'.message) = 4
        /\ rx'.message[1] = 1
        /\ rx'.message[3] = 253)
       => LET w == <<rx'.message[1], rx'.message[2], rx'.message[4], 0>>
          IN  /\ rstatus' \in {"forwarded", "dropped"}
              /\ rstatus' = "forwarded" <=> w[2] # last_code
              /\ rstatus' = "forwarded" =>
                    /\ lastFwd'.message = w
                    /\ last_code' = w[2]
              /\ rstatus' = "dropped" => UNCHANGED <<lastFwd, last_code>>]_vars

C18_Witness ==
    /\ rx.profile = 260
    /\ rx.cluster = 6
    /\ rx.message = <<1, 2, 253, 2>>
    /\ rstatus = "forwarded"
    /\ lastFwd.message = <<1, 2, 2, 0>>

====
